---- MODULE Spec2Model ----
(***************************************************************************)
(* Model of gang_bot.py: the SheetCache over the two worksheets, identity  *)
(* registration and normalisation, the balance engine, and the multi-turn  *)
(* clarification handler process_natural_language.                         *)
(*                                                                         *)
(* Text is modelled as sequences of one-character strings, so lower(),     *)
(* lstrip('@'), startswith('@'), ", ".join, split(',') and strip() are     *)
(* computed character by character.  Python floats are modelled as exact   *)
(* multiples of 1/Scale.  None is the empty tuple <<>>, a present optional *)
(* value v is <<v>>.                                                       *)
(***************************************************************************)
EXTENDS Integers, Sequences, FiniteSets, TLC

(* ------------------------------ bounds --------------------------------- *)
\* updates (messages and /start commands) delivered in one behaviour
MaxUpdates == 2
\* /start commands delivered in one behaviour of the registration specification
MaxRegs == 4
\* data rows of the Expenses sheet drawn by the balance-engine specification
MaxRows == 2
\* invocations of process_natural_language that can be in flight
MaxConc == 2
\* get_balances calls in a row on one cache in the repeated-read specification
MaxReads == 2

(* ------------------------------ strings -------------------------------- *)
None == <<>>
Some(v) == <<v>>

LowerChar(c) ==
  CASE c = "A" -> "a" [] c = "B" -> "b" [] c = "C" -> "c" [] c = "I" -> "i"
    [] c = "L" -> "l" [] c = "O" -> "o" [] c = "P" -> "p" [] OTHER -> c

\* str.lower()
Lower(s) == [i \in 1..Len(s) |-> LowerChar(s[i])]

\* str.lstrip('@')
RECURSIVE LStripAt(_)
LStripAt(s) == IF s # <<>> /\ Head(s) = "@" THEN LStripAt(Tail(s)) ELSE s

\* str.startswith("@")
StartsWithAt(s) == s # <<>> /\ Head(s) = "@"

\* str.strip(): whitespace off both ends
RECURSIVE LStripWs(_)
LStripWs(s) == IF s # <<>> /\ Head(s) = " " THEN LStripWs(Tail(s)) ELSE s
RECURSIVE RStripWs(_)
RStripWs(s) ==
  IF s # <<>> /\ s[Len(s)] = " " THEN RStripWs(SubSeq(s, 1, Len(s) - 1)) ELSE s
Strip(s) == RStripWs(LStripWs(s))

\* ", ".join(list)
RECURSIVE JoinCommaSpace(_)
JoinCommaSpace(l) ==
  IF l = <<>> THEN <<>>
  ELSE IF Len(l) = 1 THEN l[1]
  ELSE l[1] \o <<",", " ">> \o JoinCommaSpace(Tail(l))

\* str.split(','): the pieces between commas, empty pieces included
RECURSIVE SplitComma(_, _)
SplitComma(s, cur) ==
  IF s = <<>> THEN <<cur>>
  ELSE IF Head(s) = "," THEN <<cur>> \o SplitComma(Tail(s), <<>>)
  ELSE SplitComma(Tail(s), Append(cur, Head(s)))

\* [x.strip() for x in row[4].split(',') if x.strip()]
RawSplit(cell) ==
  LET parts == SplitComma(cell, <<>>)
      stripped == [i \in 1..Len(parts) |-> Strip(parts[i])]
  IN SelectSeq(stripped, LAMBDA p : p # <<>>)

Digits == <<"0", "1", "2", "3", "4", "5", "6", "7", "8", "9">>
IsDigit(c) == \E d \in 1..10 : Digits[d] = c
DigitVal(c) == (CHOOSE d \in 1..10 : Digits[d] = c) - 1

\* str(n) for an integer, as the sheet renders a number cell
RECURSIVE NatStr(_)
NatStr(n) == IF n < 10 THEN <<Digits[n + 1]>> ELSE NatStr(n \div 10) \o <<Digits[(n % 10) + 1]>>
IntStr(n) == IF n < 0 THEN <<"-">> \o NatStr(0 - n) ELSE NatStr(n)

(* ------------------------------ numbers -------------------------------- *)
\* a float value v is held as the integer v * Scale
Scale == 60

\* a strip that also drops the decimal points: re.sub(r'[^\d]', '', cell)
CleanAmountDigitsOnly(cell) == SelectSeq(cell, LAMBDA c : IsDigit(c))
\* re.sub(r'[^\d.]', '', cell)
CleanAmount(cell) == SelectSeq(cell, LAMBDA c : IsDigit(c) \/ c = ".")

\* float(clean) succeeds: digits with at most one decimal point, at least one digit
IsFloat(clean) ==
  /\ \E i \in 1..Len(clean) : IsDigit(clean[i])
  /\ Cardinality({i \in 1..Len(clean) : clean[i] = "."}) <= 1

RECURSIVE NatVal(_)
NatVal(ds) == IF ds = <<>> THEN 0 ELSE 10 * NatVal(SubSeq(ds, 1, Len(ds) - 1)) + DigitVal(ds[Len(ds)])
RECURSIVE Pow10(_)
Pow10(k) == IF k = 0 THEN 1 ELSE 10 * Pow10(k - 1)

\* float(clean) for a string that IsFloat accepts, in units of 1/Scale
FloatOf(clean) ==
  LET dots == {i \in 1..Len(clean) : clean[i] = "."}
      dot == IF dots = {} THEN Len(clean) + 1 ELSE CHOOSE i \in dots : TRUE
      ip == SubSeq(clean, 1, dot - 1)
      fp == SubSeq(clean, dot + 1, Len(clean))
  IN NatVal(ip) * Scale + (NatVal(fp) * Scale) \div Pow10(Len(fp))

(* --------------------------- ordered dicts ----------------------------- *)
\* a Python dict is the sequence of its <<key, value>> items in insertion order
DictKeys(d) == {d[i][1] : i \in 1..Len(d)}
DictValues(d) == {d[i][2] : i \in 1..Len(d)}
DictGet(d, k, default) ==
  IF k \in DictKeys(d) THEN d[CHOOSE i \in 1..Len(d) : d[i][1] = k][2] ELSE default
\* d[k] = v
DictSet(d, k, v) ==
  IF k \in DictKeys(d)
  THEN [i \in 1..Len(d) |-> IF d[i][1] = k THEN <<k, v>> ELSE d[i]]
  ELSE Append(d, <<k, v>>)

(* ------------------------------- state --------------------------------- *)
VARIABLES
  users,            \* data rows of the "Users" worksheet
  ledger,           \* data rows of the "Expenses" worksheet
  users_data,       \* SheetCache.users_data
  expenses_data,    \* SheetCache.expenses_data
  user_cache,       \* user_cache: group -> roster dict (display name -> handle)
  pending_actions,  \* pending_actions: (chat, user id) -> accumulated text
  procs,            \* the handler invocations: position, arguments and locals
  nupd,             \* updates delivered so far
  result,           \* what the last balance query returned
  rows_by,          \* history: ledger rows appended by the handler, per key
  chain             \* history: per pending entry, the message that opened it

vars == <<users, ledger, users_data, expenses_data, user_cache, pending_actions,
          procs, nupd, result, rows_by, chain>>

\* the sheets and caches, threaded through the functions that touch them
World == [users |-> users, ledger |-> ledger, users_data |-> users_data,
          expenses_data |-> expenses_data, user_cache |-> user_cache]

(* --------------------------- the store ---------------------------------- *)
\* the spreadsheet service during one handler run:
\*   ok         every call succeeds
\*   down       client.open(...).worksheet(...) raises, so _get_sheet returns None
\*   write_err  the worksheet opens and reads, append_row raises
ApiStates == {"ok", "down", "write_err"}

\* _get_sheet(tab) returned a worksheet
GetSheet(api) == api # "down"

ExpensesHeader == <<<<"D">>, <<"A">>, <<"N">>, <<"P">>, <<"S">>, <<"G">>, <<"I">>>>

\* SheetCache.get_users_records(force_refresh=True)
GetUsersRecords(w, api) ==
  LET data == IF GetSheet(api) THEN Some(w.users) ELSE w.users_data
  IN [w |-> [w EXCEPT !.users_data = data],
      rows |-> IF data = None THEN <<>> ELSE data[1]]

\* SheetCache.get_expenses_rows(force_refresh=True): get_all_values, header first
GetExpensesRows(w, api) ==
  LET data == IF GetSheet(api) THEN Some(<<ExpensesHeader>> \o w.ledger)
              ELSE w.expenses_data
  IN [w |-> [w EXCEPT !.expenses_data = data],
      rows |-> IF data = None THEN <<>> ELSE data[1]]

\* an append that inserts the row at the top of the sheet
AppendExpenseOnTop(w, row, api) ==
  IF GetSheet(api) /\ api # "write_err"
  THEN [w |-> [w EXCEPT !.ledger = <<row>> \o @, !.expenses_data = None],
        raised |-> FALSE]
  ELSE [w |-> w, raised |-> api = "write_err"]
\* SheetCache.append_expense(row); raised: append_row threw
AppendExpense(w, row, api) ==
  IF GetSheet(api) /\ api # "write_err"
  THEN [w |-> [w EXCEPT !.ledger = Append(@, row), !.expenses_data = None],
        raised |-> FALSE]
  ELSE [w |-> w, raised |-> api = "write_err"]

\* SheetCache.append_user(row)
AppendUser(w, row, api) ==
  IF GetSheet(api) /\ api # "write_err"
  THEN [w |-> [w EXCEPT !.users = Append(@, row), !.users_data = None],
        raised |-> FALSE]
  ELSE [w |-> w, raised |-> api = "write_err"]

(* ------------------------- identity resolver ---------------------------- *)
\* f"@{user.username}" if user.username else user.first_name
HandleOf(user) ==
  IF user.username # <<>> THEN <<"@">> \o user.username ELSE user.first_name

\* the loop of update_user_cache: group_roster[first name] = handle
RECURSIVE GroupRoster(_, _, _)
GroupRoster(rows, gid, acc) ==
  IF rows = <<>> THEN acc
  ELSE LET row == Head(rows)
       IN GroupRoster(Tail(rows), gid,
            IF row[1] = IntStr(gid) THEN DictSet(acc, row[2], row[3]) ELSE acc)

\* a roster refresh that takes the rows of every group for rows of this one
UpdateUserCacheAllGroups(w, gid, api) ==
  LET r == GetUsersRecords(w, api)
      rows == [i \in 1..Len(r.rows) |-> [r.rows[i] EXCEPT ![1] = IntStr(gid)]]
  IN [r.w EXCEPT !.user_cache[gid] = GroupRoster(rows, gid, <<>>)]
\* update_user_cache(group_id)
UpdateUserCache(w, gid, api) ==
  LET r == GetUsersRecords(w, api)
  IN [r.w EXCEPT !.user_cache[gid] = GroupRoster(r.rows, gid, <<>>)]

\* the loop of get_user_map over roster.items()
RECURSIVE BuildLookup(_, _)
BuildLookup(items, acc) ==
  IF items = <<>> THEN acc
  ELSE LET name == Head(items)[1]
           handle == Head(items)[2]
           a1 == DictSet(acc, Lower(name), handle)
           a2 == DictSet(a1, Lower(handle), handle)
           a3 == DictSet(a2, Lower(LStripAt(handle)), handle)
       IN BuildLookup(Tail(items), a3)

\* get_user_map(group_id)
GetUserMap(w, gid, api) ==
  LET w1 == UpdateUserCache(w, gid, api)
      roster == w1.user_cache[gid]
  IN [w |-> w1, lookup |-> BuildLookup(roster, <<>>), roster |-> roster]

\* [group_id, first_name, handle, str(user.id)]
UserRow(user, chat) == <<IntStr(chat), user.first_name, HandleOf(user), IntStr(user.id)>>

\* register_user(user, chat_id)
RegisterUser(w, user, chat, api) ==
  IF user.is_bot THEN w
  ELSE LET w1 == UpdateUserCache(w, chat, api)
           handle == HandleOf(user)
           row == UserRow(user, chat)
           a == AppendUser(w1, row, api)
       IN IF handle \in DictValues(w1.user_cache[chat]) THEN w1
          ELSE IF a.raised THEN a.w
          ELSE UpdateUserCache(a.w, chat, api)

(* --------------------------- balance engine ----------------------------- *)
EmptyBal == <<>>
BalGet(bal, k) == IF k \in DOMAIN bal THEN bal[k] ELSE 0
\* an update that is lost when the key already has a balance
BalAddIfAbsent(bal, k, v) == bal @@ (k :> v)
\* balances[k] += v on a defaultdict(float)
BalAdd(bal, k, v) ==
  IF k \in DOMAIN bal THEN [bal EXCEPT ![k] = @ + v] ELSE bal @@ (k :> v)

ALL == <<"A", "L", "L">>
InSeq(x, l) == \E i \in 1..Len(l) : l[i] = x

RECURSIVE DebitEach(_, _, _)
DebitEach(bal, people, cost) ==
  IF people = <<>> THEN bal
  ELSE DebitEach(BalAdd(bal, Head(people), 0 - cost), Tail(people), cost)

RECURSIVE SetToSeq(_)
SetToSeq(S) ==
  IF S = {} THEN <<>> ELSE LET x == CHOOSE x \in S : TRUE IN <<x>> \o SetToSeq(S \ {x})

\* an expansion of ALL over the lookup's keys instead of its values
SplitBetweenKeys(raw_split, lookup) ==
  IF InSeq(ALL, raw_split) THEN SetToSeq(DictKeys(lookup))
  ELSE [i \in 1..Len(raw_split) |-> DictGet(lookup, Lower(raw_split[i]), raw_split[i])]
\* the participants of one row: ALL expands to the roster's handles
SplitBetween(raw_split, lookup) ==
  IF InSeq(ALL, raw_split) THEN SetToSeq(DictValues(lookup))
  ELSE [i \in 1..Len(raw_split) |-> DictGet(lookup, Lower(raw_split[i]), raw_split[i])]

\* the body of the loop of get_balances for one row
ApplyRow(bal, row, lookup, gid) ==
  IF ~(Len(row) > 6 /\ row[7] = IntStr(gid)) THEN bal
  ELSE LET clean_amount == CleanAmount(row[2])
           amount == FloatOf(clean_amount)
           payer == DictGet(lookup, Lower(row[4]), row[4])
           raw_split == RawSplit(row[5])
           split_between == SplitBetween(raw_split, lookup)
           cost_per_person == amount \div Len(split_between)
       IN IF clean_amount = <<>> THEN bal
          ELSE IF ~IsFloat(clean_amount) THEN bal
          ELSE IF raw_split = <<>> THEN bal
          ELSE IF split_between = <<>> THEN bal
          ELSE DebitEach(BalAdd(bal, payer, amount), split_between, cost_per_person)

RECURSIVE FoldRows(_, _, _, _)
FoldRows(bal, rows, lookup, gid) ==
  IF rows = <<>> THEN bal
  ELSE FoldRows(ApplyRow(bal, Head(rows), lookup, gid), Tail(rows), lookup, gid)

\* get_balances(group_id)
GetBalances(w, gid, api) ==
  LET r == GetExpensesRows(w, api)
      m == GetUserMap(r.w, gid, api)
  IN IF Len(r.rows) < 2 THEN [w |-> r.w, bal |-> EmptyBal]
     ELSE [w |-> m.w, bal |-> FoldRows(EmptyBal, Tail(r.rows), m.lookup, gid)]

(* ------------------------- the chat and its users ----------------------- *)
Al == <<"A", "l">>
Bo == <<"B", "o">>
U1 == [id |-> 1, first_name |-> Al, username |-> <<"a", "l">>, is_bot |-> FALSE]
U2 == [id |-> 2, first_name |-> Bo, username |-> <<"b", "o">>, is_bot |-> FALSE]
\* shares U1's first name
U3 == [id |-> 3, first_name |-> Al, username |-> <<"a", "l", "i">>, is_bot |-> FALSE]
\* has no username: the handle is the first name
U4 == [id |-> 4, first_name |-> <<"C", "y">>, username |-> <<>>, is_bot |-> FALSE]
NoUser == [id |-> 0, first_name |-> <<>>, username |-> <<>>, is_bot |-> FALSE]

\* the users who write in the main specification, and all who can register
Senders == {U1, U2}
People == {U1, U2, U3}
Chats == {1, 2}
\* the chat the conversations of the main specification take place in
MainChat == 1
Texts == {<<"l">>, <<"2", "0">>}

Today == <<"d">>
GroupTitle == <<"g">>

(* --------------------- language-understanding adapter ------------------- *)
\* what ask_gemini_to_parse can return: <<"fail">> for None, else the decoded
\* JSON object.  involved is <<"absent">> (no such key), <<"null">> or a list.
Amounts == {None, Some(0), Some(20), Some(0 - 5)}
Descriptions == {None, Some(<<"x">>)}
Involveds == {<<"absent">>, <<"null">>, <<"list", <<ALL>>>>,
              <<"list", <<HandleOf(U2)>>>>, <<"list", <<Bo>>>>}
Targets == {None, Some(HandleOf(U2))}
Questions == {None, Some(<<"q">>)}

ParsedObjects ==
  [intent : {"EXPENSE", "PAYMENT"}, amount : Amounts, description : Descriptions,
   involved : Involveds, target_user : {None}, reply_message : {None}]
  \cup
  [intent : {"BALANCE", "SETTLE_INTENT"}, amount : {None}, description : {None},
   involved : {<<"absent">>}, target_user : Targets, reply_message : {None}]
  \cup
  [intent : {"UNKNOWN", "OTHER"}, amount : {None}, description : {None},
   involved : {<<"absent">>}, target_user : {None}, reply_message : Questions]

AdapterOutputs == {<<"fail">>} \cup {<<"ok", p>> : p \in ParsedObjects}

\* Python truthiness of the decoded fields
TruthyNum(a) == a # None /\ a[1] # 0
TruthyStr(d) == d # None /\ d[1] # <<>>
\* parsed.get("involved", [])
InvolvedGet(p) == IF p.involved[1] = "absent" THEN Some(<<>>)
                  ELSE IF p.involved[1] = "null" THEN None
                  ELSE Some(p.involved[2])
TruthyList(v) == v # None /\ v[1] # <<>>

(* ---------------------- process_natural_language ------------------------ *)
Slots == 1..MaxConc
IdleProc ==
  [pc |-> "idle", chat |-> 0, user |-> NoUser, text |-> <<>>, api |-> "ok",
   loading |-> FALSE, had |-> None, parsed |-> <<"-">>, full_text |-> <<>>,
   branch |-> "-", missing |-> <<>>, out |-> <<>>, appended |-> FALSE,
   shown |-> {}, opened |-> None]

Running(p) == p.pc \in {"run", "cleanup"}
KeyOf(p) == <<p.chat, p.user.id>>
Keys == {<<c, u.id>> : c \in Chats, u \in People}

\* a deletion that leaves the entry in place
DelPendingKept(pend, key) == pend
\* del pending_actions[key] when present
DelPending(pend, key) == [k \in DOMAIN pend \ {key} |-> pend[k]]
\* a store that keeps the text of an entry that is already there
SetPendingFirstKept(pend, key, text) ==
  IF key \in DOMAIN pend THEN pend ELSE (key :> [text |-> text]) @@ pend
\* pending_actions[key] = {"text": text}
SetPending(pend, key, text) == (key :> [text |-> text]) @@ pend

\* the validation of an EXPENSE or PAYMENT (BRANCH 0)
Validate(p) ==
  LET intent == p.intent
      amount == p.amount
      desc == IF intent = "PAYMENT" /\ ~TruthyStr(p.description)
              THEN Some(<<"P", "a", "y", "m", "e", "n", "t">>) ELSE p.description
      involved0 == InvolvedGet(p)
      m1 == IF ~TruthyNum(amount) THEN <<"Amount">> ELSE <<>>
      m2 == IF ~TruthyStr(desc) THEN Append(m1, "Description") ELSE m1
      m3 == IF intent = "PAYMENT" /\ (~TruthyList(involved0) \/ InSeq(ALL, involved0[1]))
            THEN Append(m2, "Who (Recipient)") ELSE m2
      involved == IF intent = "EXPENSE" /\ ~TruthyList(involved0) THEN Some(<<ALL>>)
                  ELSE involved0
      \* iterating None raises TypeError
      raised == involved = None
      unknown == IF raised THEN <<>>
                 ELSE SelectSeq(involved[1], LAMBDA n : ~StartsWithAt(n) /\ n # ALL)
      m4 == IF unknown # <<>> THEN Append(m3, "Who is") ELSE m3
  IN [amount |-> amount, desc |-> desc, involved |-> involved, raised |-> raised,
      missing_fields |-> m4, is_incomplete |-> m4 # <<>>]

\* the row list built for db.append_expense
LedgerRow(amount, desc, user, involved, chat) ==
  <<Today, IntStr(amount[1]), desc[1], user.first_name, JoinCommaSpace(involved[1]),
    GroupTitle, IntStr(chat)>>

\* loading_msg.edit_text(msg) if there is a loading message, else reply_text(msg)
EditOrReply(p, msg) ==
  Append(p.out, IF p.loading THEN "edit:" \o msg ELSE "send:" \o msg)

Abs(v) == IF v < 0 THEN 0 - v ELSE v
\* abs(val) < 0.01
Settled(v) == Abs(v) * 100 < Scale

\* BRANCH 1: BALANCE
BalanceBranch(w, pend, p, obj) ==
  LET gb == GetBalances(w, p.chat, p.api)
      m == GetUserMap(gb.w, p.chat, p.api)
      shown == {h \in DOMAIN gb.bal : ~Settled(gb.bal[h])}
      msg == IF TruthyStr(obj.target_user) THEN "balance_target"
             ELSE IF shown # {} THEN "group_ledger" ELSE "settled"
  IN IF gb.bal = EmptyBal
     THEN [w |-> gb.w, pend |-> pend, result |-> Some([gid |-> p.chat, api |-> p.api, bal |-> gb.bal]),
           p |-> [p EXCEPT !.pc = "done", !.branch = "balance_empty",
                           !.out = IF p.loading THEN Append(@, "edit:ledger_empty") ELSE @]]
     ELSE [w |-> m.w, pend |-> pend, result |-> Some([gid |-> p.chat, api |-> p.api, bal |-> gb.bal]),
           p |-> [p EXCEPT !.pc = "done", !.branch = "balance",
                           !.shown = IF TruthyStr(obj.target_user) THEN {} ELSE shown,
                           !.out = EditOrReply(p, msg)]]

\* a settle branch that ends the key's conversation
SettleBranchClearing(w, pend, p, obj) ==
  [w |-> w, pend |-> DelPending(pend, KeyOf(p)), result |-> None,
   p |-> [p EXCEPT !.pc = "done", !.branch = "settle_prompt",
                   !.out = EditOrReply(p, "settle_prompt")]]
\* BRANCH 2: SETTLE_INTENT
SettleBranch(w, pend, p, obj) ==
  LET gb == GetBalances(w, p.chat, p.api)
      m == GetUserMap(gb.w, p.chat, p.api)
  IN IF ~TruthyStr(obj.target_user)
     THEN [w |-> w, pend |-> pend, result |-> None,
           p |-> [p EXCEPT !.pc = "done", !.branch = "settle_prompt",
                           !.out = EditOrReply(p, "settle_prompt")]]
     ELSE [w |-> m.w, pend |-> pend, result |-> Some([gid |-> p.chat, api |-> p.api, bal |-> gb.bal]),
           p |-> [p EXCEPT !.pc = "done", !.branch = "settle",
                           !.out = EditOrReply(p, "settle")]]

\* BRANCH 3: LOGGING (EXPENSE/PAYMENT)
CommitBranch(w, pend, p, v) ==
  LET row == LedgerRow(v.amount, v.desc, p.user, v.involved, p.chat)
      a == AppendExpense(w, row, p.api)
  IN IF a.raised
     THEN [w |-> a.w, pend |-> pend, result |-> None,
           p |-> [p EXCEPT !.pc = "done", !.branch = "save_error",
                           !.out = EditOrReply(p, "save_error")]]
     ELSE [w |-> a.w, pend |-> DelPending(pend, KeyOf(p)), result |-> None,
           p |-> [p EXCEPT !.pc = "done", !.branch = "commit",
                           !.appended = a.w.ledger # w.ledger,
                           !.out = EditOrReply(p, "logged")]]

\* ACTION: ASK FOR CLARIFICATION
ClarifyBranch(w, pend, p, obj, missing_fields) ==
  LET question == IF missing_fields # <<>> THEN "missing"
                  ELSE IF TruthyStr(obj.reply_message) THEN "ai_question"
                  ELSE "generic_question"
  IN [w |-> w, pend |-> SetPending(pend, KeyOf(p), p.full_text), result |-> None,
      p |-> [p EXCEPT !.pc = "done", !.branch = "clarify",
                      !.missing = missing_fields,
                      !.out = (IF p.loading THEN Append(@, "delete") ELSE @)
                                \o <<"send:" \o question>>]]

\* process_natural_language from register_user (line 269) to its return or to the
\* await that precedes the deletion of the pending entry on a failed parse
RunOutcome(w0, pend, p0, parsed) ==
  LET w == RegisterUser(w0, p0.user, p0.chat, p0.api)
      key == KeyOf(p0)
      full_text == IF key \in DOMAIN pend THEN pend[key].text \o <<" ">> \o p0.text
                   ELSE p0.text
      p == [p0 EXCEPT !.parsed = parsed, !.full_text = full_text]
      obj == parsed[2]
      intent == obj.intent
      v == Validate(obj)
      logging == intent \in {"EXPENSE", "PAYMENT"}
  IN IF parsed[1] = "fail"
     THEN [w |-> w, pend |-> pend, result |-> None,
           p |-> [p EXCEPT !.pc = "cleanup", !.branch = "fail",
                           !.out = EditOrReply(p, "brain_freeze")]]
     ELSE IF logging /\ v.raised
     THEN [w |-> w, pend |-> pend, result |-> None,
           p |-> [p EXCEPT !.pc = "done", !.branch = "crash"]]
     ELSE IF intent = "UNKNOWN" \/ (logging /\ v.is_incomplete)
     THEN ClarifyBranch(w, pend, p, obj, IF logging THEN v.missing_fields ELSE <<>>)
     ELSE IF intent = "BALANCE" THEN BalanceBranch(w, pend, p, obj)
     ELSE IF intent = "SETTLE_INTENT" THEN SettleBranch(w, pend, p, obj)
     ELSE IF logging THEN CommitBranch(w, pend, p, v)
     ELSE [w |-> w, pend |-> pend, result |-> None,
           p |-> [p EXCEPT !.pc = "done", !.branch = "none"]]

(* ------------------------------ dispatch -------------------------------- *)
\* Application built with the defaults (no concurrent_updates, blocking
\* handlers): the next update is fetched when the handler of the previous one
\* has returned
CanDispatchConcurrently(s) ==
  ~Running(procs[s]) /\ \A t \in Slots : t < s => Running(procs[t])
CanDispatch(s) == s = 1 /\ \A t \in Slots : ~Running(procs[t])

SetWorld(w) ==
  /\ users' = w.users
  /\ ledger' = w.ledger
  /\ users_data' = w.users_data
  /\ expenses_data' = w.expenses_data
  /\ user_cache' = w.user_cache

(* ------------------------------- actions -------------------------------- *)
\* process_natural_language, lines 257-267: the pending check and the loading message
Begin(s, chat, user, text, api) ==
  /\ nupd < MaxUpdates
  /\ CanDispatch(s)
  /\ LET key == <<chat, user.id>>
         isnew == key \notin DOMAIN pending_actions
     IN procs' = [procs EXCEPT ![s] =
          [IdleProc EXCEPT !.pc = "run", !.chat = chat, !.user = user, !.text = text,
                           !.api = api, !.loading = isnew,
                           !.had = IF isnew THEN None ELSE Some(pending_actions[key].text),
                           !.out = IF isnew THEN <<"send:processing">> ELSE <<>>]]
  /\ nupd' = nupd + 1
  /\ UNCHANGED <<users, ledger, users_data, expenses_data, user_cache,
                 pending_actions, result, rows_by, chain>>

\* standard_command_wrapper and handle_mention: always into the engine
Message(s, chat, user, text, api) == Begin(s, chat, user, text, api)

\* handle_reply: into the engine only while a reply is awaited
HandleReply(s, chat, user, text, api) ==
  IF <<chat, user.id>> \in DOMAIN pending_actions
  THEN Begin(s, chat, user, text, api)
  ELSE /\ nupd < MaxUpdates
       /\ CanDispatch(s)
       /\ procs' = [procs EXCEPT ![s] =
            [IdleProc EXCEPT !.pc = "done", !.chat = chat, !.user = user,
                             !.text = text, !.api = api, !.branch = "ignored"]]
       /\ nupd' = nupd + 1
       /\ UNCHANGED <<users, ledger, users_data, expenses_data, user_cache,
                      pending_actions, result, rows_by, chain>>

\* the parsed object is an EXPENSE or PAYMENT without a usable amount
LacksAmount(parsed) ==
  /\ parsed[1] = "ok"
  /\ parsed[2].intent \in {"EXPENSE", "PAYMENT"}
  /\ ~TruthyNum(parsed[2].amount)

\* the history variables after a step that leaves pending_actions as pend
ChainAfter(key, pend, parsed) ==
  IF key \notin DOMAIN pend THEN [k \in DOMAIN chain \ {key} |-> chain[k]]
  ELSE IF key \in DOMAIN pending_actions THEN chain
  ELSE (key :> [lack |-> LacksAmount(parsed), rows |-> rows_by[key]]) @@ chain

\* process_natural_language, lines 269-429
Run(s) ==
  /\ procs[s].pc = "run"
  /\ \E parsed \in AdapterOutputs :
       LET o == RunOutcome(World, pending_actions, procs[s], parsed)
           key == KeyOf(procs[s])
       IN /\ SetWorld(o.w)
          /\ pending_actions' = o.pend
          /\ procs' = [procs EXCEPT ![s] =
               [o.p EXCEPT !.opened = IF key \in DOMAIN chain THEN Some(chain[key])
                                      ELSE None]]
          /\ result' = o.result
          /\ rows_by' = IF o.p.appended THEN [rows_by EXCEPT ![key] = @ + 1] ELSE rows_by
          /\ chain' = ChainAfter(key, o.pend, parsed)
  /\ UNCHANGED nupd

\* a failure path that returns without dropping the pending entry
CleanupSkipped(s) ==
  /\ procs[s].pc = "cleanup"
  /\ procs' = [procs EXCEPT ![s].pc = "done"]
  /\ UNCHANGED <<users, ledger, users_data, expenses_data, user_cache, nupd, result,
                 rows_by, chain, pending_actions>>
\* line 290, after the failure message was sent
Cleanup(s) ==
  /\ procs[s].pc = "cleanup"
  /\ pending_actions' = DelPending(pending_actions, KeyOf(procs[s]))
  /\ procs' = [procs EXCEPT ![s].pc = "done"]
  /\ chain' = [k \in DOMAIN chain \ {KeyOf(procs[s])} |-> chain[k]]
  /\ UNCHANGED <<users, ledger, users_data, expenses_data, user_cache, nupd, result,
                 rows_by>>

\* the /start command: start(update, context)
StartCommand(s, chat, user, api) ==
  /\ CanDispatch(s)
  /\ SetWorld(RegisterUser(World, user, chat, api))
  /\ procs' = [procs EXCEPT ![s] =
       [IdleProc EXCEPT !.pc = "done", !.chat = chat, !.user = user, !.api = api,
                        !.branch = "start", !.out = <<"send:ready">>]]
  /\ nupd' = nupd + 1
  /\ UNCHANGED <<pending_actions, result, rows_by, chain>>

Start(s, chat, user, api) == nupd < MaxUpdates /\ StartCommand(s, chat, user, api)

Init ==
  /\ users = <<>>
  /\ ledger = <<>>
  /\ users_data = None
  /\ expenses_data = None
  /\ user_cache = [c \in Chats |-> <<>>]
  /\ pending_actions = <<>>
  /\ procs = [s \in Slots |-> IdleProc]
  /\ nupd = 0
  /\ result = None
  /\ rows_by = [k \in Keys |-> 0]
  /\ chain = <<>>

Next ==
  \/ \E s \in Slots, u \in Senders, t \in Texts, a \in ApiStates :
       Message(s, MainChat, u, t, a)
  \/ \E s \in Slots, u \in Senders, t \in Texts, a \in ApiStates :
       HandleReply(s, MainChat, u, t, a)
  \/ \E s \in Slots : Run(s)
  \/ \E s \in Slots : Cleanup(s)
  \/ \E s \in Slots, u \in Senders, a \in ApiStates : Start(s, MainChat, u, a)

Spec == Init /\ [][Next]_vars

(* ------------- registration alone, on a store that does not fail -------- *)
Register(chat, user) == nupd < MaxRegs /\ StartCommand(1, chat, user, "ok")

NextReg == \E c \in Chats, u \in People : Register(c, u)

SpecReg == Init /\ [][NextReg]_vars

(* ------------- the balance engine over the sheets it can find ----------- *)
\* Users sheets: the rows that registrations leave, in the orders that matter
\* (U1 and U3 share a first name), with or without a row of the other group
AlRows == {<<>>, <<UserRow(U1, 1)>>, <<UserRow(U3, 1)>>,
           <<UserRow(U1, 1), UserRow(U3, 1)>>, <<UserRow(U3, 1), UserRow(U1, 1)>>}
BoRows == {<<>>, <<UserRow(U2, 1)>>}
CyRows == {<<>>, <<UserRow(U4, 1)>>}
OtherGroupRows == {<<>>, <<UserRow(U2, 2)>>}
UsersSheets == {o \o b \o a \o c : o \in OtherGroupRows, b \in BoRows, a \in AlRows,
                                   c \in CyRows}

\* Expenses rows: rows as the commit writes them, and rows whose amount cell
\* was typed into the sheet
CommittedRows ==
  {LedgerRow(Some(20), Some(<<"x">>), u, Some(<<ALL>>), 1) : u \in {U1, U2, U3}}
  \cup {LedgerRow(Some(20), Some(<<"x">>), q[1], Some(<<HandleOf(q[2])>>), 1) :
          q \in {r \in {U1, U2, U3} \X {U1, U2, U3} : r[1] # r[2]}}
  \cup {LedgerRow(Some(20), Some(<<"x">>), U2, Some(<<ALL>>), 2)}
  \cup {LedgerRow(Some(20), Some(<<"x">>), U1, Some(<<HandleOf(U2), HandleOf(U2)>>), 1)}
TypedAmounts == {<<"a", "b", "c">>, <<"1", ".", "2", ".", "3">>, <<".">>,
                 <<"$", "2", "0">>}
TypedRows == {<<Today, a, <<"x">>, Bo, HandleOf(U1), GroupTitle, IntStr(1)>> :
                a \in TypedAmounts}
SheetRows == CommittedRows \cup TypedRows

RECURSIVE SeqsUpTo(_, _)
SeqsUpTo(S, n) ==
  IF n = 0 THEN {<<>>}
  ELSE LET shorter == SeqsUpTo(S, n - 1)
       IN shorter \cup {Append(q, x) : q \in {r \in shorter : Len(r) = n - 1}, x \in S}

InitBal ==
  /\ users \in UsersSheets
  /\ ledger \in SeqsUpTo(SheetRows, MaxRows)
  /\ users_data = None
  /\ expenses_data = None
  /\ user_cache = [c \in Chats |-> <<>>]
  /\ pending_actions = <<>>
  /\ procs = [s \in Slots |-> IdleProc]
  /\ nupd = 0
  /\ result = None
  /\ rows_by = [k \in Keys |-> 0]
  /\ chain = <<>>

\* one call of get_balances(group_id)
Query(gid, api) ==
  /\ result = None
  /\ LET gb == GetBalances(World, gid, api)
     IN /\ SetWorld(gb.w)
        /\ result' = Some([gid |-> gid, api |-> api, bal |-> gb.bal])
  /\ UNCHANGED <<pending_actions, procs, nupd, rows_by, chain>>

NextBal == \E g \in Chats, a \in {"ok", "down"} : Query(g, a)

SpecBal == InitBal /\ [][NextBal]_vars

(* ------------- get_balances called repeatedly on one cache -------------- *)
ReadRows == {LedgerRow(Some(20), Some(<<"x">>), U1, Some(<<ALL>>), 1),
             LedgerRow(Some(20), Some(<<"x">>), U2, Some(<<HandleOf(U1)>>), 1),
             LedgerRow(Some(20), Some(<<"x">>), U2, Some(<<ALL>>), 2)}

InitRead ==
  /\ users \in {<<>>, <<UserRow(U1, 1), UserRow(U2, 1)>>,
                <<UserRow(U1, 1), UserRow(U2, 1), UserRow(U2, 2)>>}
  /\ ledger \in SeqsUpTo(ReadRows, MaxRows)
  /\ users_data = None
  /\ expenses_data = None
  /\ user_cache = [c \in Chats |-> <<>>]
  /\ pending_actions = <<>>
  /\ procs = [s \in Slots |-> IdleProc]
  /\ nupd = 0
  /\ result = None
  /\ rows_by = [k \in Keys |-> 0]
  /\ chain = <<>>

\* one more call of get_balances(group_id), on the caches the earlier calls left
Requery(gid, api) ==
  /\ nupd < MaxReads
  /\ LET gb == GetBalances(World, gid, api)
     IN /\ SetWorld(gb.w)
        /\ result' = Some([gid |-> gid, api |-> api, bal |-> gb.bal])
  /\ nupd' = nupd + 1
  /\ UNCHANGED <<pending_actions, procs, rows_by, chain>>

NextRead == \E g \in Chats, a \in {"ok", "down"} : Requery(g, a)

SpecRead == InitRead /\ [][NextRead]_vars

(* =============================== claims ================================= *)
Twenty == <<"2", "0">>
IsPrefix(a, b) == Len(a) <= Len(b) /\ SubSeq(b, 1, Len(a)) = a
HasPending(key) == key \in DOMAIN pending_actions
Said(p, msg) == InSeq("edit:" \o msg, p.out) \/ InSeq("send:" \o msg, p.out)

\* a decoded object that is a complete, valid EXPENSE or PAYMENT of the amount a
CompleteValid(obj, a) ==
  /\ obj.intent \in {"EXPENSE", "PAYMENT"}
  /\ obj.amount = Some(a)
  /\ obj.intent = "EXPENSE" => obj.description # None /\ obj.description[1] # <<>>
  /\ obj.involved[1] # "null"
  /\ obj.intent = "PAYMENT" => obj.involved[1] = "list" /\ obj.involved[2] # <<>>
  /\ obj.involved[1] = "list" =>
       \A i \in 1..Len(obj.involved[2]) :
         \/ StartsWithAt(obj.involved[2][i])
         \/ obj.involved[2][i] = ALL /\ obj.intent = "EXPENSE"

\* the second message of a chain opened from IDLE by an EXPENSE/PAYMENT without
\* an amount: it supplies "20" and the adapter returns a complete intent of 20
SecondOfTwo(p) ==
  /\ p.pc = "done"
  /\ p.had # None /\ p.had[1] \in Texts
  /\ p.opened # None /\ p.opened[1].lack
  /\ p.text = Twenty
  /\ p.parsed[1] = "ok" /\ CompleteValid(p.parsed[2], 20)

MergedIntoOne(p) ==
  /\ rows_by[KeyOf(p)] = p.opened[1].rows + 1
  /\ p.appended
  /\ ledger[Len(ledger)][2] = Twenty
  /\ ~HasPending(KeyOf(p))

\* C1 as stated: after the two messages exactly one ledger entry was appended by
\* the key, with amount 20, and the key is IDLE -- whatever the store did.
C1_AsStated == \A s \in Slots : SecondOfTwo(procs[s]) => MergedIntoOne(procs[s])

\* C1 amended: when the ledger append of the second message succeeds, the two
\* messages yield exactly one entry, of amount 20, and the key ends IDLE; when it
\* does not succeed, the two messages yield no entry.
C1_TwoMessagesOneEntry ==
  \A s \in Slots :
    SecondOfTwo(procs[s]) =>
      IF procs[s].api = "ok" THEN MergedIntoOne(procs[s])
      ELSE rows_by[KeyOf(procs[s])] = procs[s].opened[1].rows

C1_Witness ==
  \E s \in Slots :
    SecondOfTwo(procs[s]) /\ procs[s].api = "ok" /\ MergedIntoOne(procs[s])

\* C2: the 'Logged' confirmation is emitted only when a ledger row was actually
\* appended; a failed append gives the save-error message instead.
C2_ConfirmationMeansAppended ==
  \A s \in Slots :
    (procs[s].pc = "done" /\ Said(procs[s], "logged")) => procs[s].appended

\* C7: a failed parse emits the failure message and appends no ledger row, and
\* when the handler returns the key has no pending entry.
C7_ParseFailureClears ==
  [][\A s \in Slots :
       /\ (procs[s].pc = "run" /\ procs'[s].parsed = <<"fail">>) =>
            /\ ledger' = ledger
            /\ Said(procs'[s], "brain_freeze")
            /\ procs'[s].pc = "cleanup"
       /\ (procs[s].pc = "cleanup" /\ procs'[s].pc = "done") =>
            /\ ledger' = ledger
            /\ KeyOf(procs[s]) \notin DOMAIN pending_actions']_vars

C7_Witness ==
  \E s \in Slots :
    /\ procs[s].pc = "done" /\ procs[s].parsed = <<"fail">>
    /\ procs[s].had # None
    /\ ~HasPending(KeyOf(procs[s]))

\* C3: with the store working, after any sequence of registrations every
\* registered handle of a group has exactly one row in the identity store.
C3_OneRowPerHandle ==
  /\ \A i, j \in 1..Len(users) :
       (users[i][1] = users[j][1] /\ users[i][3] = users[j][3]) => i = j
  /\ \A s \in Slots :
       procs[s].branch = "start" =>
         \E i \in 1..Len(users) : users[i] = UserRow(procs[s].user, procs[s].chat)

Registered(u, g) == \E i \in 1..Len(users) : users[i] = UserRow(u, g)
\* the row the commit writes when a pays b the amount x in group g
PaymentRow(a, b, x, g) ==
  LedgerRow(Some(x), Some(<<"x">>), a, Some(<<HandleOf(b)>>), g)

\* C4: when the ledger of a group is A pays B X followed by B pays A X, for
\* registered A and B, get_balances returns zero for A and for B.
C4_MirrorPaymentsCancel ==
  (result # None /\ result[1].api = "ok") =>
    \A a \in {U1, U2, U3}, b \in {U1, U2, U3} :
      LET g == result[1].gid
      IN (/\ a # b /\ Registered(a, g) /\ Registered(b, g)
          /\ ledger = <<PaymentRow(a, b, 20, g), PaymentRow(b, a, 20, g)>>)
         => /\ BalGet(result[1].bal, HandleOf(a)) = 0
            /\ BalGet(result[1].bal, HandleOf(b)) = 0

\* a counted row of group g whose participants contain the literal ALL
IsAllRow(row, g) ==
  /\ Len(row) > 6 /\ row[7] = IntStr(g)
  /\ CleanAmount(row[2]) # <<>> /\ IsFloat(CleanAmount(row[2]))
  /\ InSeq(ALL, RawSplit(row[5]))
RosterHandles(g) == DictValues(user_cache[g])
PayerKey(row, g) == DictGet(BuildLookup(user_cache[g], <<>>), Lower(row[4]), row[4])
\* what one ALL row adds to the balance of h: the payer +M, each of the N roster
\* handles -M/N, nothing at all when the roster is empty
AllRowShare(row, g, h) ==
  LET m == FloatOf(CleanAmount(row[2]))
      n == Cardinality(RosterHandles(g))
  IN IF n = 0 THEN 0
     ELSE (IF PayerKey(row, g) = h THEN m ELSE 0)
          - (IF h \in RosterHandles(g) THEN m \div n ELSE 0)
RECURSIVE AllRowsShare(_, _, _)
AllRowsShare(rows, g, h) ==
  IF rows = <<>> THEN 0
  ELSE (IF IsAllRow(Head(rows), g) THEN AllRowShare(Head(rows), g, h) ELSE 0)
       + AllRowsShare(Tail(rows), g, h)

\* C5: in the balances of a group every row with ALL debits each of the N
\* roster handles M/N and credits the payer M, on top of what the other rows
\* give; with an empty roster the row changes nothing.
C5_AllSplitsOverRoster ==
  (result # None /\ result[1].api = "ok") =>
    LET g == result[1].gid
        others == SelectSeq(ledger, LAMBDA r : ~IsAllRow(r, g))
        rest == GetBalances([World EXCEPT !.ledger = others], g, "ok").bal
        keys == DOMAIN result[1].bal \cup DOMAIN rest \cup RosterHandles(g)
    IN \A h \in keys :
         BalGet(result[1].bal, h) = BalGet(rest, h) + AllRowsShare(ledger, g, h)

C5_Witness ==
  /\ result # None /\ result[1].api = "ok"
  /\ Len(ledger) = 1 /\ IsAllRow(ledger[1], result[1].gid)
  /\ Cardinality(RosterHandles(result[1].gid)) = 3
  /\ PayerKey(ledger[1], result[1].gid) \in RosterHandles(result[1].gid)
  /\ \A h \in RosterHandles(result[1].gid) :
       result[1].bal[h] = IF h = PayerKey(ledger[1], result[1].gid)
                          THEN 20 * Scale - (20 * Scale) \div 3
                          ELSE 0 - (20 * Scale) \div 3

\* the amount cell is empty or not a number once everything but digits and '.'
\* is stripped
MalformedAmount(cell) ==
  LET kept == SelectSeq(cell, LAMBDA c : c \in {"0", "1", "2", "3", "4", "5", "6",
                                                "7", "8", "9", "."})
  IN \/ \A i \in 1..Len(kept) : kept[i] = "."
     \/ Cardinality({i \in 1..Len(kept) : kept[i] = "."}) >= 2

\* C6: get_balances returns for a ledger what it returns for the same ledger
\* without its malformed-amount rows.
C6_MalformedRowsDropped ==
  (result # None /\ result[1].api = "ok") =>
    LET wellformed == SelectSeq(ledger, LAMBDA r : ~MalformedAmount(r[2]))
    IN result[1].bal =
         GetBalances([World EXCEPT !.ledger = wellformed], result[1].gid, "ok").bal

C6_Witness ==
  /\ result # None /\ result[1].api = "ok"
  /\ Len(ledger) = 2
  /\ MalformedAmount(ledger[1][2]) /\ ~MalformedAmount(ledger[2][2])
  /\ ledger[2][7] = IntStr(result[1].gid)
  /\ result[1].bal # EmptyBal

\* the number a sheet cell shows, sign included
CellNumber(cell) ==
  IF cell # <<>> /\ Head(cell) = "-" THEN 0 - FloatOf(Tail(cell)) ELSE FloatOf(cell)

\* C8: every row appended by a commit has amount > 0, a non-empty description
\* and a non-empty participant list of ALL or '@' handles, without ALL for a
\* PAYMENT.
C8_AppendedRowWellFormed ==
  \A s \in Slots :
    (procs[s].pc = "done" /\ procs[s].appended) =>
      LET row == ledger[Len(ledger)]
          parts == RawSplit(row[5])
      IN /\ CellNumber(row[2]) > 0
         /\ row[3] # <<>>
         /\ parts # <<>>
         /\ \A i \in 1..Len(parts) : parts[i] = ALL \/ StartsWithAt(parts[i])
         /\ procs[s].parsed[2].intent = "PAYMENT" => ~InSeq(ALL, parts)

\* C9: the ledger only grows at its end, by at most one row per step, and only
\* in the step in which a handler invocation processes its message.
C9_LedgerAppendOnly ==
  [][/\ IsPrefix(ledger, ledger')
     /\ Len(ledger') <= Len(ledger) + 1
     /\ ledger' # ledger =>
          \E s \in Slots : procs[s].pc = "run" /\ procs'[s].pc = "done"]_vars

C9_Witness == Len(ledger) = 2 /\ nupd = 2

\* C10: between an invocation's first read of its key's pending entry and its
\* last access to it no other invocation touches the entry: the entry it merges
\* with, replaces or deletes is the one it read first, and what it stores is
\* that entry's text, one space and the new text.
C10_KeySerialized ==
  [][\A s \in Slots :
       LET p == procs[s]
           key == KeyOf(p)
           now == IF HasPending(key) THEN Some(pending_actions[key].text) ELSE None
       IN /\ (p.pc = "run" /\ procs'[s].pc # "run") =>
               /\ now = p.had
               /\ \A t \in Slots \ {s} : Running(procs[t]) => KeyOf(procs[t]) # key
               /\ procs'[s].branch = "clarify" =>
                    pending_actions'[key].text =
                      IF p.had = None THEN p.text ELSE p.had[1] \o <<" ">> \o p.text
          /\ (p.pc = "cleanup" /\ procs'[s].pc = "done") => now = p.had]_vars

C10_Witness ==
  \E s \in Slots :
    /\ procs[s].pc = "done" /\ procs[s].branch = "clarify"
    /\ procs[s].had # None
    /\ pending_actions[KeyOf(procs[s])].text = procs[s].had[1] \o <<" ">> \o procs[s].text

\* a finished invocation whose message the adapter decoded to one of the intents
Parsed(p, intents) ==
  p.pc = "done" /\ p.parsed[1] = "ok" /\ p.parsed[2].intent \in intents
\* the last thing the invocation sent or edited
LastSaid(p) == IF p.out = <<>> THEN "" ELSE p.out[Len(p.out)]
\* the handles whose absolute balance is at least 0.01
Unsettled(bal) == {h \in DOMAIN bal : Abs(bal[h]) * 100 >= Scale}

\* C11: a BALANCE query without target lists exactly the handles whose absolute
\* balance is at least 0.01, and when there is none (all near zero, or no
\* balance at all) the reply is the 'everyone settled' message.
C11_BalanceListsUnsettled ==
  \A s \in Slots :
    (Parsed(procs[s], {"BALANCE"}) /\ ~TruthyStr(procs[s].parsed[2].target_user)) =>
      LET rest == Unsettled(result[1].bal)
      IN IF rest # {}
         THEN /\ LastSaid(procs[s]) \in {"edit:group_ledger", "send:group_ledger"}
              /\ procs[s].shown = rest
         ELSE LastSaid(procs[s]) \in {"edit:settled", "send:settled"}

\* lookup.get(name.lower(), name)
Resolve(lookup, name) == DictGet(lookup, Lower(name), name)

\* C12: through the lookup built by get_user_map, the display name, the handle
\* and the handle without '@' of every identity row of the group, as written
\* and in lower case, resolve to that identity's own handle.
C12_NamesResolveToOwnHandle ==
  (result # None /\ result[1].api = "ok" /\ ledger # <<>>) =>
    LET g == result[1].gid
        lookup == BuildLookup(user_cache[g], <<>>)
    IN \A i \in 1..Len(users) :
         users[i][1] = IntStr(g) =>
           \A x \in {users[i][2], users[i][3], LStripAt(users[i][3])} :
             /\ Resolve(lookup, x) = users[i][3]
             /\ Resolve(lookup, Lower(x)) = users[i][3]

\* C13: get_balances returns an empty mapping whenever the ledger read fails,
\* whatever an earlier read returned, and whenever the ledger has no data row.
C13_EmptyOnReadFailure ==
  (result # None /\ (result[1].api = "down" \/ ledger = <<>>)) =>
    result[1].bal = EmptyBal

\* C14: when the ledger append of a commit fails (no row is written), the
\* pending entry the key held before the message is still present afterwards,
\* with its accumulated text.
C14_WriteFailureKeepsPending ==
  [][\A s \in Slots :
       (/\ procs[s].pc = "run" /\ procs'[s].pc = "done"
        /\ procs'[s].branch \in {"commit", "save_error"}
        /\ ledger' = ledger
        /\ procs[s].had # None) =>
         /\ KeyOf(procs[s]) \in DOMAIN pending_actions'
         /\ pending_actions'[KeyOf(procs[s])].text = procs[s].had[1]]_vars

\* the text stored on a clarification: the previous pending text, one space and
\* the new message, or the new message alone from IDLE
Accumulated(pend, key, text) ==
  IF key \in DOMAIN pend THEN pend[key].text \o <<" ">> \o text ELSE text

\* C15: every transition to AWAITING_CLARIFICATION replaces the key's pending
\* text by the previous pending text, one space and the new message, and a
\* pending text is set or changed by nothing else; so consecutive incomplete
\* messages m1..mn from IDLE leave "m1 m2 ... mn".
C15_PendingAccumulates ==
  [][/\ \A s \in Slots :
          (procs[s].pc = "run" /\ procs'[s].pc = "done"
             /\ procs'[s].branch = "clarify") =>
            /\ KeyOf(procs[s]) \in DOMAIN pending_actions'
            /\ pending_actions'[KeyOf(procs[s])].text =
                 Accumulated(pending_actions, KeyOf(procs[s]), procs[s].text)
     /\ \A k \in DOMAIN pending_actions' :
          (k \notin DOMAIN pending_actions \/ pending_actions'[k] # pending_actions[k]) =>
            \E s \in Slots :
              /\ procs[s].pc = "run" /\ procs'[s].branch = "clarify"
              /\ KeyOf(procs[s]) = k]_vars

C15_Witness ==
  \E s \in Slots :
    /\ procs[s].pc = "done" /\ procs[s].branch = "clarify"
    /\ procs[s].opened # None
    /\ procs[s].had = Some(<<"l">>) /\ procs[s].text = Twenty
    /\ pending_actions[KeyOf(procs[s])].text = <<"l", " ", "2", "0">>

\* a PAYMENT whose involved field is absent, null, empty or contains ALL
NoRecipient(obj) ==
  /\ obj.intent = "PAYMENT"
  /\ \/ obj.involved[1] \in {"absent", "null"}
     \/ obj.involved[1] = "list" /\ (obj.involved[2] = <<>> \/ InSeq(ALL, obj.involved[2]))

\* C16: a PAYMENT without an explicit recipient appends no ledger row, leaves
\* the accumulated text as the key's pending entry and is answered by a
\* clarification that lists the recipient as missing.
C16_PaymentWithoutRecipientAsks ==
  \A s \in Slots :
    (procs[s].pc = "done" /\ procs[s].parsed[1] = "ok"
       /\ NoRecipient(procs[s].parsed[2])) =>
      /\ ~procs[s].appended
      /\ procs[s].branch = "clarify"
      /\ InSeq("Who (Recipient)", procs[s].missing)
      /\ LastSaid(procs[s]) = "send:missing"
      /\ HasPending(KeyOf(procs[s]))
      /\ pending_actions[KeyOf(procs[s])].text = procs[s].full_text

\* C17: handling a message decoded as BALANCE or SETTLE_INTENT leaves the
\* pending-action store as it was, for every key, and appends no ledger row.
C17_QueriesLeavePending ==
  [][\A s \in Slots :
       (/\ procs[s].pc = "run" /\ procs'[s].pc # "run"
        /\ procs'[s].parsed[1] = "ok"
        /\ procs'[s].parsed[2].intent \in {"BALANCE", "SETTLE_INTENT"}) =>
         /\ pending_actions' = pending_actions
         /\ ledger' = ledger]_vars

C17_Witness ==
  \E s \in Slots :
    /\ Parsed(procs[s], {"BALANCE", "SETTLE_INTENT"})
    /\ procs[s].had # None
    /\ HasPending(KeyOf(procs[s]))
    /\ pending_actions[KeyOf(procs[s])].text = procs[s].had[1]

\* the answers of an invocation: what it sent, or edited into its loading
\* message, apart from the loading message itself and its deletion
Answers(p) == {i \in 1..Len(p.out) : p.out[i] \notin {"send:processing", "delete"}}

\* C18: every message decoded as BALANCE or SETTLE_INTENT gets exactly one
\* response in its turn, with or without a pending action of the key and with
\* or without ledger rows.
C18_QueryAnsweredOnce ==
  \A s \in Slots :
    Parsed(procs[s], {"BALANCE", "SETTLE_INTENT"}) =>
      Cardinality(Answers(procs[s])) = 1

\* the store reduced to the ledger rows and identity rows of group g
OwnRows(g) ==
  [World EXCEPT !.ledger = SelectSeq(ledger, LAMBDA r : r[7] = IntStr(g)),
                !.users = SelectSeq(users, LAMBDA r : r[1] = IntStr(g))]

\* C19: get_balances(g) returns what it returns on the store reduced to the
\* rows of group g, so two stores that differ only in rows of other groups give
\* the same balances for g.
C19_OnlyOwnGroupRows ==
  (result # None /\ result[1].api = "ok") =>
    result[1].bal = GetBalances(OwnRows(result[1].gid), result[1].gid, "ok").bal

C19_Witness ==
  /\ result # None /\ result[1].api = "ok" /\ result[1].gid = 1
  /\ result[1].bal # EmptyBal
  /\ \E i \in 1..Len(ledger) : ledger[i][7] = IntStr(2)
  /\ \E i \in 1..Len(users) : users[i][1] = IntStr(2)
  /\ \E i \in 1..Len(ledger) : ledger[i][7] = IntStr(1) /\ IsAllRow(ledger[i], 1)

RECURSIVE SumOver(_, _)
SumOver(bal, keys) ==
  IF keys = {} THEN 0
  ELSE LET k == CHOOSE k \in keys : TRUE IN bal[k] + SumOver(bal, keys \ {k})

\* C20: the balances returned by get_balances sum to zero: every counted row
\* credits its payer what it debits its participants in total.
C20_BalancesSumToZero ==
  result # None => SumOver(result[1].bal, DOMAIN result[1].bal) = 0

C20_Witness ==
  /\ result # None /\ result[1].api = "ok" /\ result[1].gid = 1
  /\ \E h \in DOMAIN result[1].bal : result[1].bal[h] # 0
  /\ Len(ledger) = 2
  /\ RawSplit(ledger[1][5]) = <<HandleOf(U2), HandleOf(U2)>>
  /\ IsAllRow(ledger[2], 1) /\ PayerKey(ledger[2], 1) \in RosterHandles(1)
  /\ Cardinality(RosterHandles(1)) = 3

\* the row the commit writes when a logs an expense of x for everyone in group g
ExpenseRow(a, x, g) == LedgerRow(Some(x), Some(<<"x">>), a, Some(<<ALL>>), g)

\* the balances credit the amount m (less the share owed) to the key h alone
CreditedOnly(bal, h, m) ==
  /\ BalGet(bal, h) = m
  /\ \A k \in DOMAIN bal \ {h} : bal[k] <= 0

\* C21: when the ledger of a group is one EXPENSE or PAYMENT of 20 committed by
\* a registered sender, get_balances credits the 20 to the sender's own handle
\* and to no other key, whatever the roster.
C21_CommitCreditsSender ==
  (result # None /\ result[1].api = "ok") =>
    LET g == result[1].gid
        bal == result[1].bal
        n == Cardinality(RosterHandles(g))
    IN \A a \in {U1, U2, U3} :
         Registered(a, g) =>
           /\ \A b \in {U1, U2, U3} \ {a} :
                (Registered(b, g) /\ ledger = <<PaymentRow(a, b, 20, g)>>) =>
                  CreditedOnly(bal, HandleOf(a), 20 * Scale)
           /\ ledger = <<ExpenseRow(a, 20, g)>> =>
                CreditedOnly(bal, HandleOf(a), 20 * Scale - (20 * Scale) \div n)

====
